---- MODULE Spec2Model ----
(***************************************************************************)
(* A model of nova/service.py: the Node Service (class Service), its       *)
(* registry record, its Consumer Group task and its Periodic Timers.       *)
(*                                                                         *)
(* One Service instance is driven by one caller (the main task), which     *)
(* calls start(), stop(), kill() and wait() one after the other.  The      *)
(* Consumer Group task and every LoopingCall run as separate cooperative   *)
(* tasks.  Every registry call (nova.db) and greenthread.kill() is a       *)
(* point where the calling task may be suspended and another task, or the  *)
(* world outside the process, may take a step: each action below is the    *)
(* code between two such points.                                           *)
(*                                                                         *)
(* Beside the specification of that one service there are specifications   *)
(* of the service against a clock (SpecTimed), as the body of a process    *)
(* (SpecRun), next to a second service on the same registry (SpecPeers),   *)
(* as the target of bus dispatch (SpecDispatch), and of the Launcher and   *)
(* its processes (SpecLauncher).                                           *)
(***************************************************************************)
EXTENDS Integers, Sequences, FiniteSets, TLC

\* ------------------------------------------------------------------ bounds
MaxStarts == 2      \* calls of start() in one behaviour
MaxId == 4          \* ids the registry hands out
MaxCount == 2       \* cap on report_count
MaxTime == 5        \* ticks the clock runs for
MaxInterval == 2    \* the longest interval of a timer, in ticks
MaxServices == 3    \* services one Launcher launches

\* --------------------------------------------------------- program constants
DefaultReportInterval == 10
DefaultPeriodicInterval == 60

Host == "host1"
OtherHost == "host2"
Topic == "compute"
Zone == "nova"
Binary == "nova-compute"
None == 0

VARIABLES
    \* the registry (nova.db) and the world outside the process
    registry,             \* id -> ServiceRecord
    nextId,               \* the id the next service_create generates
    dbUp,                 \* the registry is reachable
    \* the fields of the Service instance
    report_interval,
    periodic_interval,
    service_id,
    model_disconnected,
    timers,               \* self.timers: a list of LoopingCall handles
    consumer_set_thread,  \* self.consumer_set_thread: a handle, or None
    \* the cooperative tasks
    threads,              \* the greenthreads running _wait(), by handle
    loops,                \* the LoopingCalls, by handle
    \* the caller
    mainPc,               \* where the caller is inside start/stop/kill/wait
    inKill,               \* the running stop() was called by kill()
    waitList,             \* the list wait() is iterating over
    nStarts,              \* how many times start() was called
    lastRet,              \* the last call that returned: [op, exc]
    \* what the log and the history show
    stopped,              \* stop() has returned and start() was not called since
    everStopped,          \* stop() has returned at least once (inside kill() too)
    killAbsent,           \* the record was absent when the last kill() was called
    hbLast,               \* outcome of the last finished report_state()
    hbEmit,               \* what that invocation logged
    \* the clock and the sleeps of the Periodic Timers
    now,                  \* the clock, in ticks
    wake,                 \* by LoopingCall handle: the tick its sleep ends at
    fired,                \* by handle: [at, n] the tick the timer was started
                          \* or last called its callback at, and the calls
    \* Launcher.run_service, the body of the service's process
    run,                  \* [pc, intr, stop_called]
    \* the Launcher and the processes it spawned
    procs,                \* self._services: a list of process states
    launcher,             \* [pc, i, ret]: where the Launcher's caller is
    \* another Node Service, running as another process
    peer,                 \* [host, pc, service_id, ref]
    \* the manager and the dispatch of bus messages
    manager_methods,      \* the names the manager defines
    dispatched            \* the last dispatch: [m, by]

vars == <<registry, nextId, dbUp, report_interval, periodic_interval,
          service_id, model_disconnected, timers, consumer_set_thread,
          threads, loops, mainPc, inKill, waitList, nStarts, lastRet,
          stopped, everStopped, killAbsent, hbLast, hbEmit,
          now, wake, fired, run, procs, launcher, peer, manager_methods,
          dispatched>>

svcVars == <<report_interval, periodic_interval>>
histVars == <<hbLast, hbEmit>>
timeVars == <<now, wake, fired>>
launcherVars == <<procs, launcher>>
dispatchVars == <<manager_methods, dispatched>>
\* What a behaviour of one service, called directly and without a clock,
\* leaves alone.
extVars == <<timeVars, run, launcherVars, peer, dispatchVars>>

\* ---------------------------------------------------------------- registry
ServiceRecord(h, b, c) ==
    [host |-> h, binary |-> b, topic |-> Topic, report_count |-> c,
     availability_zone |-> Zone]

\* db.service_get_by_args: the ids of the records of (host, binary)
service_get_by_args(reg, h, b) ==
    {i \in DOMAIN reg : reg[i].host = h /\ reg[i].binary = b}

\* db.service_get: whether the id is found
service_found(reg, id) == id \in DOMAIN reg

\* service_create with the count the record is updated to, not 0.
service_createCounted(reg, id, h, b) ==
    [i \in DOMAIN reg \cup {id} |->
        IF i = id THEN ServiceRecord(h, b, 1) ELSE reg[i]]

\* db.service_create with the values of _create_service_ref
service_create(reg, id, h, b) ==
    [i \in DOMAIN reg \cup {id} |->
        IF i = id THEN ServiceRecord(h, b, 0) ELSE reg[i]]

\* service_update that writes the count to every record.
service_updateAll(reg, id, c) ==
    [i \in DOMAIN reg |-> [reg[i] EXCEPT !.report_count = c]]

\* db.service_update of report_count
service_update(reg, id, c) ==
    [reg EXCEPT ![id].report_count = c]

\* db.service_destroy
service_destroy(reg, id) ==
    [i \in DOMAIN reg \ {id} |-> reg[i]]

OwnRecords == service_get_by_args(registry, Host, Binary)

\* ------------------------------------------------------------------- tasks
Handles(seq) == 1..Len(seq)

InFlight(l) == loops[l].pc \in {"get", "create", "reget", "update", "call"}
Finished(l) == loops[l].pc \in {"done", "failed"}
ThreadDead(t) == threads[t].st \in {"killed", "error"}

Ret(op, exc) == [op |-> op, exc |-> exc]

\* -------------------------------------------------------------------- Init
\* Service.__init__, lines 145-157, and the registry it finds: the record of
\* another host, and possibly a record of this (host, binary) left by an
\* earlier run.
InitService ==
    /\ \/ /\ registry = (1 :> ServiceRecord(OtherHost, Binary, 1))
          /\ nextId = 2
       \/ /\ registry = (1 :> ServiceRecord(OtherHost, Binary, 1))
                        @@ (2 :> ServiceRecord(Host, Binary, 1))
          /\ nextId = 3
    /\ dbUp = TRUE
    /\ service_id = None
    /\ model_disconnected = FALSE
    /\ timers = <<>>
    /\ consumer_set_thread = None
    /\ threads = <<>>
    /\ loops = <<>>
    /\ mainPc = "idle"
    /\ inKill = FALSE
    /\ waitList = <<>>
    /\ nStarts = 0
    /\ lastRet = Ret("none", "none")
    /\ stopped = FALSE
    /\ everStopped = FALSE
    /\ killAbsent = FALSE
    /\ hbLast = "none"
    /\ hbEmit = "none"

\* report_interval and periodic_interval as Service.create, lines 252-255,
\* passes them (the flags' defaults), or 0 from a caller that wants no timer.
InitIntervals ==
    /\ report_interval \in {0, DefaultReportInterval}
    /\ periodic_interval \in {0, DefaultPeriodicInterval}

\* No clock, no Launcher, no other service, no dispatch.
InitTime ==
    /\ now = 0
    /\ wake = <<>>
    /\ fired = <<>>

InitRun == run = [pc |-> "off", intr |-> FALSE, stop_called |-> FALSE]

InitLauncher ==
    /\ procs = <<>>
    /\ launcher = [pc |-> "idle", i |-> 0, ret |-> "none"]

InitPeer ==
    peer = [host |-> OtherHost, pc |-> "off", service_id |-> None, ref |-> 0]

InitDispatch ==
    /\ manager_methods = {}
    /\ dispatched = [m |-> "none", by |-> "none"]

Init ==
    /\ InitService
    /\ InitIntervals
    /\ InitTime
    /\ InitRun
    /\ InitLauncher
    /\ InitPeer
    /\ InitDispatch

\* ----------------------------------------------------------------- start()
\* The caller leaves a call: normally (exc = "none") or with an exception
\* that propagates out of it.
Return(op, exc) ==
    /\ mainPc' = "idle"
    /\ lastRet' = Ret(op, exc)

\* utils.LoopingCall(f) followed by start(interval, now=False): the loop is
\* running and sleeps for its first interval.
LoopingCall(f) == [f |-> f, running |-> TRUE, pc |-> "sleep", ref |-> 0]

\* greenthread.spawn(_wait): a task that has not run yet, its Consumer
\* Group not closed.
SpawnedThread == [st |-> "spawned", closed |-> 0]

\* start(), lines 159-164: manager.init_host() either raises, and the
\* exception leaves start(), or returns, and model_disconnected is reset.
StartCall ==
    /\ mainPc = "idle"
    /\ nStarts' = nStarts + 1
    /\ \/ /\ Return("start", "manager_error")
          /\ UNCHANGED <<model_disconnected, stopped, hbLast>>
       \/ /\ model_disconnected' = FALSE
          /\ mainPc' = "start_lookup"
          /\ stopped' = FALSE
          /\ hbLast' = "none"
          /\ UNCHANGED lastRet
    /\ UNCHANGED <<registry, nextId, dbUp, svcVars, service_id, timers,
                   consumer_set_thread, threads, loops, inKill, waitList,
                   everStopped, killAbsent, hbEmit>>

\* StartLookup that never adopts: a found record is treated as NotFound.
StartLookupNeverAdopts ==
    /\ mainPc = "start_lookup"
    /\ \/ /\ ~dbUp
          /\ Return("start", "db_error")
       \/ /\ dbUp
          /\ mainPc' = "start_create"
          /\ UNCHANGED lastRet
    /\ UNCHANGED <<registry, nextId, dbUp, svcVars, service_id,
                   model_disconnected, timers, consumer_set_thread, threads,
                   loops, inKill, waitList, nStarts, stopped, everStopped,
                   killAbsent, histVars>>

\* StartLookup that takes every failure of the lookup for NotFound.
StartLookupSwallows ==
    /\ mainPc = "start_lookup"
    /\ \/ /\ dbUp
          /\ \E id \in service_get_by_args(registry, Host, Binary) :
                service_id' = id
          /\ mainPc' = "start_spawn"
          /\ UNCHANGED lastRet
       \/ /\ ~dbUp \/ service_get_by_args(registry, Host, Binary) = {}
          /\ mainPc' = "start_create"
          /\ UNCHANGED <<service_id, lastRet>>
    /\ UNCHANGED <<registry, nextId, dbUp, svcVars, model_disconnected,
                   timers, consumer_set_thread, threads, loops, inKill,
                   waitList, nStarts, stopped, everStopped, killAbsent,
                   histVars>>

\* start(), lines 166-171: db.service_get_by_args.  A record of (host,
\* binary) gives its id; NotFound sends start() to _create_service_ref; any
\* other failure leaves start().
StartLookup ==
    /\ mainPc = "start_lookup"
    /\ \/ /\ ~dbUp
          /\ Return("start", "db_error")
          /\ UNCHANGED service_id
       \/ /\ dbUp
          /\ \E id \in service_get_by_args(registry, Host, Binary) :
                service_id' = id
          /\ mainPc' = "start_spawn"
          /\ UNCHANGED lastRet
       \/ /\ dbUp
          /\ service_get_by_args(registry, Host, Binary) = {}
          /\ mainPc' = "start_create"
          /\ UNCHANGED <<service_id, lastRet>>
    /\ UNCHANGED <<registry, nextId, dbUp, svcVars, model_disconnected,
                   timers, consumer_set_thread, threads, loops, inKill,
                   waitList, nStarts, stopped, everStopped, killAbsent,
                   histVars>>

\* _create_service_ref, lines 217-225, called by start() at line 172.
StartCreate ==
    /\ mainPc = "start_create"
    /\ \/ /\ ~dbUp
          /\ Return("start", "db_error")
          /\ UNCHANGED <<registry, nextId, service_id>>
       \/ /\ dbUp
          /\ nextId <= MaxId
          /\ registry' = service_create(registry, nextId, Host, Binary)
          /\ service_id' = nextId
          /\ nextId' = nextId + 1
          /\ mainPc' = "start_spawn"
          /\ UNCHANGED lastRet
    /\ UNCHANGED <<dbUp, svcVars, model_disconnected, timers,
                   consumer_set_thread, threads, loops, inKill, waitList,
                   nStarts, stopped, everStopped, killAbsent, histVars>>

\* The handles start() appends to self.timers, lines 207-215.
NewTimers ==
    LET n == Len(loops)
        pulse == IF report_interval # 0 THEN <<n + 1>> ELSE <<>>
        periodic == IF periodic_interval # 0
                    THEN <<n + Len(pulse) + 1>> ELSE <<>>
    IN pulse \o periodic

\* The LoopingCalls start() creates, lines 207-215.
NewLoops ==
    (IF report_interval # 0 THEN <<LoopingCall("report_state")>> ELSE <<>>)
    \o (IF periodic_interval # 0
        THEN <<LoopingCall("periodic_tasks")>> ELSE <<>>)

\* start(), lines 174-215: update_available_resource on a compute node
\* (which may raise), then the connection, the Consumer Group, the spawned
\* _wait task and the two timers.  Nothing in it suspends the caller.
StartSpawn ==
    /\ mainPc = "start_spawn"
    /\ \/ /\ Binary = "nova-compute"
          /\ Return("start", "manager_error")
          /\ UNCHANGED <<timers, consumer_set_thread, threads, loops>>
       \/ /\ threads' = Append(threads, SpawnedThread)
          /\ consumer_set_thread' = Len(threads) + 1
          /\ loops' = loops \o NewLoops
          /\ timers' = timers \o NewTimers
          /\ Return("start", "none")
    /\ UNCHANGED <<registry, nextId, dbUp, svcVars, service_id,
                   model_disconnected, inKill, waitList, nStarts, stopped,
                   everStopped, killAbsent, histVars>>

\* ------------------------------------------------- the Consumer Group task
\* _wait(), lines 199-201: the spawned task is scheduled for the first time
\* and blocks in consumer_set.wait().
ConsumerRun(t) ==
    /\ threads[t].st = "spawned"
    /\ threads' = [threads EXCEPT ![t].st = "waiting"]
    /\ UNCHANGED <<registry, nextId, dbUp, svcVars, service_id,
                   model_disconnected, timers, consumer_set_thread, loops,
                   mainPc, inKill, waitList, nStarts, lastRet, stopped,
                   everStopped, killAbsent, histVars>>

\* _wait(), lines 200-203: consumer_set.wait() raises because the bus
\* connection died; the finally block closes the Consumer Group and the task
\* ends with that error.
BusDies(t) ==
    /\ threads[t].st = "waiting"
    /\ threads' = [threads EXCEPT ![t].st = "error",
                                  ![t].closed = @ + 1]
    /\ UNCHANGED <<registry, nextId, dbUp, svcVars, service_id,
                   model_disconnected, timers, consumer_set_thread, loops,
                   mainPc, inKill, waitList, nStarts, lastRet, stopped,
                   everStopped, killAbsent, histVars>>

\* ------------------------------------------------------- stop() and kill()
\* self.consumer_set_thread.kill(), line 270.  A task blocked in
\* consumer_set.wait() gets GreenletExit there and runs its finally block; a
\* task that never ran ends without running _wait at all; a dead task is
\* left as it is.
KilledThread(th) ==
    IF th.st = "waiting" THEN [st |-> "killed", closed |-> th.closed + 1]
    ELSE IF th.st = "spawned" THEN [st |-> "killed", closed |-> th.closed]
    ELSE th

\* stop(), line 270, entered directly (k = FALSE) or from kill(), line 263
\* (k = TRUE).  Before the first start() has spawned the task the attribute
\* does not exist and the lookup raises.  kill() hands control to the other
\* tasks before the caller runs again.
StopEnter(k) ==
    /\ mainPc = "idle"
    /\ inKill' = k
    /\ killAbsent' = IF k THEN ~service_found(registry, service_id)
                     ELSE killAbsent
    /\ IF consumer_set_thread = None
       THEN /\ Return(IF k THEN "kill" ELSE "stop", "AttributeError")
            /\ UNCHANGED threads
       ELSE /\ threads' = [threads EXCEPT ![consumer_set_thread] =
                                              KilledThread(@)]
            /\ mainPc' = "stop_wait"
            /\ UNCHANGED lastRet
    /\ UNCHANGED <<registry, nextId, dbUp, svcVars, service_id,
                   model_disconnected, timers, consumer_set_thread, loops,
                   waitList, nStarts, stopped, everStopped, histVars>>

StopCall == StopEnter(FALSE)

KillCall == StopEnter(TRUE)

\* CancelTimers that clears the list without stopping the timers.
CancelTimersForgotten(ls, ts) == ls

\* LoopingCall.stop() on every handle of self.timers, lines 275-279.
CancelTimers(ls, ts) ==
    [l \in DOMAIN ls |->
        IF \E i \in DOMAIN ts : ts[i] = l
        THEN [ls[l] EXCEPT !.running = FALSE] ELSE ls[l]]

\* stop(), lines 271-280: consumer_set_thread.wait() re-raises what the task
\* ended with.  GreenletExit is swallowed; any other error leaves stop(),
\* and the timers are not touched.  Otherwise every timer of self.timers is
\* stopped and the list is cleared; inside kill() the caller goes on to
\* service_destroy.
StopJoin ==
    /\ mainPc = "stop_wait"
    /\ IF threads[consumer_set_thread].st = "error"
       THEN /\ Return(IF inKill THEN "kill" ELSE "stop", "bus_error")
            /\ UNCHANGED <<loops, timers, stopped, everStopped>>
       ELSE /\ loops' = CancelTimers(loops, timers)
            /\ timers' = <<>>
            /\ stopped' = TRUE
            /\ everStopped' = TRUE
            /\ IF inKill
               THEN /\ mainPc' = "kill_destroy"
                    /\ UNCHANGED lastRet
               ELSE Return("stop", "none")
    /\ UNCHANGED <<registry, nextId, dbUp, svcVars, service_id,
                   model_disconnected, consumer_set_thread, threads, inKill,
                   waitList, nStarts, killAbsent, histVars>>

\* kill(), lines 264-267: db.service_destroy; NotFound is logged and
\* swallowed, any other failure leaves kill().
KillDestroy ==
    /\ mainPc = "kill_destroy"
    /\ \/ /\ ~dbUp
          /\ Return("kill", "db_error")
          /\ UNCHANGED registry
       \/ /\ dbUp
          /\ registry' = IF service_found(registry, service_id)
                         THEN service_destroy(registry, service_id)
                         ELSE registry
          /\ Return("kill", "none")
    /\ UNCHANGED <<nextId, dbUp, svcVars, service_id, model_disconnected,
                   timers, consumer_set_thread, threads, loops, inKill,
                   waitList, nStarts, stopped, everStopped, killAbsent,
                   histVars>>

\* ------------------------------------------------------------------ wait()
AllFinished(ts) == \A i \in DOMAIN ts : Finished(ts[i])

\* wait(), lines 282-287: x.wait() on every handle of self.timers, in turn.
\* A timer's wait() returns, or raises what its loop ended with (swallowed),
\* once the loop has ended; wait() returns at once when every loop of the
\* list has ended, and blocks otherwise.
WaitCall ==
    /\ mainPc = "idle"
    /\ IF AllFinished(timers)
       THEN /\ Return("wait", "none")
            /\ UNCHANGED waitList
       ELSE /\ mainPc' = "waiting"
            /\ waitList' = timers
            /\ UNCHANGED lastRet
    /\ UNCHANGED <<registry, nextId, dbUp, svcVars, service_id,
                   model_disconnected, timers, consumer_set_thread, threads,
                   loops, inKill, nStarts, stopped, everStopped, killAbsent,
                   histVars>>

\* wait(), lines 283-287: the last loop of the list has ended.
WaitReturn ==
    /\ mainPc = "waiting"
    /\ AllFinished(waitList)
    /\ Return("wait", "none")
    /\ waitList' = <<>>
    /\ UNCHANGED <<registry, nextId, dbUp, svcVars, service_id,
                   model_disconnected, timers, consumer_set_thread, threads,
                   loops, inKill, nStarts, stopped, everStopped, killAbsent,
                   histVars>>

\* wait(), lines 283-287: KeyboardInterrupt is no Exception, so an interrupt
\* delivered to the blocked caller leaves wait().
WaitInterrupt ==
    /\ mainPc = "waiting"
    /\ Return("wait", "KeyboardInterrupt")
    /\ waitList' = <<>>
    /\ UNCHANGED <<registry, nextId, dbUp, svcVars, service_id,
                   model_disconnected, timers, consumer_set_thread, threads,
                   loops, inKill, nStarts, stopped, everStopped, killAbsent,
                   histVars>>

\* --------------------------------------------------------- report_state()
\* report_state(), lines 310-312: the registry calls succeeded.  A set
\* model_disconnected is cleared and the recovery is logged, once.
OnSuccess ==
    /\ model_disconnected' = FALSE
    /\ hbEmit' = IF model_disconnected THEN "recovery" ELSE "none"
    /\ hbLast' = "ok"

\* OnFailure without the test of line 316: every failure is logged.
OnFailureNoDebounce ==
    /\ model_disconnected' = TRUE
    /\ hbEmit' = "error"
    /\ hbLast' = "fail"

\* report_state(), lines 315-318: a registry call raised.  A clear
\* model_disconnected is set and the error is logged, once.
OnFailure ==
    /\ model_disconnected' = TRUE
    /\ hbEmit' = IF ~model_disconnected THEN "error" ELSE "none"
    /\ hbLast' = "fail"

\* The LoopingCall goes back to sleep after its callback returned.
Sleep(l) == [loops EXCEPT ![l].pc = "sleep", ![l].ref = 0]

\* report_state(), lines 296-299: db.service_get(self.service_id).
ReportGet(l) ==
    /\ loops[l].pc = "get"
    /\ \/ /\ ~dbUp
          /\ OnFailure
          /\ loops' = Sleep(l)
       \/ /\ dbUp
          /\ service_found(registry, service_id)
          /\ loops' = [loops EXCEPT
                          ![l].pc = "update",
                          ![l].ref = registry[service_id].report_count]
          /\ UNCHANGED <<model_disconnected, histVars>>
       \/ /\ dbUp
          /\ ~service_found(registry, service_id)
          /\ loops' = [loops EXCEPT ![l].pc = "create"]
          /\ UNCHANGED <<model_disconnected, histVars>>
    /\ UNCHANGED <<registry, nextId, dbUp, svcVars, service_id, timers,
                   consumer_set_thread, threads, mainPc, inKill, waitList,
                   nStarts, lastRet, stopped, everStopped, killAbsent>>

\* report_state(), lines 299-302: the record disappeared;
\* _create_service_ref, lines 217-225, creates it anew.
ReportCreate(l) ==
    /\ loops[l].pc = "create"
    /\ \/ /\ ~dbUp
          /\ OnFailure
          /\ loops' = Sleep(l)
          /\ UNCHANGED <<registry, nextId, service_id>>
       \/ /\ dbUp
          /\ nextId <= MaxId
          /\ registry' = service_create(registry, nextId, Host, Binary)
          /\ service_id' = nextId
          /\ nextId' = nextId + 1
          /\ loops' = [loops EXCEPT ![l].pc = "reget"]
          /\ UNCHANGED <<model_disconnected, histVars>>
    /\ UNCHANGED <<dbUp, svcVars, timers, consumer_set_thread, threads,
                   mainPc, inKill, waitList, nStarts, lastRet, stopped,
                   everStopped, killAbsent>>

\* report_state(), line 303: the second db.service_get; here NotFound is a
\* failure like any other.
ReportReget(l) ==
    /\ loops[l].pc = "reget"
    /\ IF dbUp /\ service_found(registry, service_id)
       THEN /\ loops' = [loops EXCEPT
                            ![l].pc = "update",
                            ![l].ref = registry[service_id].report_count]
            /\ UNCHANGED <<model_disconnected, histVars>>
       ELSE /\ OnFailure
            /\ loops' = Sleep(l)
    /\ UNCHANGED <<registry, nextId, dbUp, svcVars, service_id, timers,
                   consumer_set_thread, threads, mainPc, inKill, waitList,
                   nStarts, lastRet, stopped, everStopped, killAbsent>>

\* report_state(), lines 305-312: db.service_update writes the count read
\* plus one to the record of self.service_id and the flag is handled.
ReportUpdate(l) ==
    /\ loops[l].pc = "update"
    /\ IF dbUp /\ service_found(registry, service_id)
       THEN /\ loops[l].ref + 1 <= MaxCount
            /\ registry' = service_update(registry, service_id,
                                          loops[l].ref + 1)
            /\ OnSuccess
       ELSE /\ OnFailure
            /\ UNCHANGED registry
    /\ loops' = Sleep(l)
    /\ UNCHANGED <<nextId, dbUp, svcVars, service_id, timers,
                   consumer_set_thread, threads, mainPc, inKill, waitList,
                   nStarts, lastRet, stopped, everStopped, killAbsent>>

\* ------------------------------------------------------ the Periodic Timer
\* The loop wakes from its sleep while running and calls its callback:
\* report_state(), line 293, or periodic_tasks(), line 289.
LoopFire(l) ==
    /\ loops[l].pc = "sleep"
    /\ loops[l].running
    /\ loops' = [loops EXCEPT ![l].pc = IF loops[l].f = "report_state"
                                        THEN "get" ELSE "call"]
    /\ UNCHANGED <<registry, nextId, dbUp, svcVars, service_id,
                   model_disconnected, timers, consumer_set_thread, threads,
                   mainPc, inKill, waitList, nStarts, lastRet, stopped,
                   everStopped, killAbsent, histVars>>

\* The loop wakes from its sleep after stop() and ends.
LoopExit(l) ==
    /\ loops[l].pc = "sleep"
    /\ ~loops[l].running
    /\ loops' = [loops EXCEPT ![l].pc = "done"]
    /\ UNCHANGED <<registry, nextId, dbUp, svcVars, service_id,
                   model_disconnected, timers, consumer_set_thread, threads,
                   mainPc, inKill, waitList, nStarts, lastRet, stopped,
                   everStopped, killAbsent, histVars>>

\* periodic_tasks(), lines 289-291: manager.periodic_tasks returns.
PeriodicReturn(l) ==
    /\ loops[l].pc = "call"
    /\ loops' = Sleep(l)
    /\ UNCHANGED <<registry, nextId, dbUp, svcVars, service_id,
                   model_disconnected, timers, consumer_set_thread, threads,
                   mainPc, inKill, waitList, nStarts, lastRet, stopped,
                   everStopped, killAbsent, histVars>>

\* periodic_tasks(), lines 289-291: manager.periodic_tasks raises and
\* periodic_tasks() lets it through; the loop ends with that error.
PeriodicRaise(l) ==
    /\ loops[l].pc = "call"
    /\ loops' = [loops EXCEPT ![l].pc = "failed"]
    /\ UNCHANGED <<registry, nextId, dbUp, svcVars, service_id,
                   model_disconnected, timers, consumer_set_thread, threads,
                   mainPc, inKill, waitList, nStarts, lastRet, stopped,
                   everStopped, killAbsent, histVars>>

\* --------------------------------------------- the world outside the process
\* A record of this service is deleted out-of-band.
ExternalDelete(id) ==
    /\ id \in OwnRecords
    /\ registry' = service_destroy(registry, id)
    /\ UNCHANGED <<nextId, dbUp, svcVars, service_id, model_disconnected,
                   timers, consumer_set_thread, threads, loops, mainPc,
                   inKill, waitList, nStarts, lastRet, stopped, everStopped,
                   killAbsent, histVars>>

\* The registry becomes unreachable, or reachable again.
DbToggle ==
    /\ dbUp' = ~dbUp
    /\ UNCHANGED <<registry, nextId, svcVars, service_id, model_disconnected,
                   timers, consumer_set_thread, threads, loops, mainPc,
                   inKill, waitList, nStarts, lastRet, stopped, everStopped,
                   killAbsent, histVars>>

\* ------------------------------------------------------- the specification
\* The first start() of the instance.
FirstStart ==
    /\ nStarts = 0
    /\ StartCall

\* start() called on an instance that was started before: nothing in
\* start() looks at what an earlier call left behind.
Restart ==
    /\ nStarts >= 1
    /\ nStarts < MaxStarts
    /\ StartCall

\* The steps of the instance and of its tasks.
Steps ==
    \/ FirstStart /\ UNCHANGED extVars
    \/ StartLookup /\ UNCHANGED extVars
    \/ StartCreate /\ UNCHANGED extVars
    \/ StartSpawn /\ UNCHANGED extVars
    \/ StopCall /\ UNCHANGED extVars
    \/ KillCall /\ UNCHANGED extVars
    \/ StopJoin /\ UNCHANGED extVars
    \/ KillDestroy /\ UNCHANGED extVars
    \/ WaitCall /\ UNCHANGED extVars
    \/ WaitReturn /\ UNCHANGED extVars
    \/ WaitInterrupt /\ UNCHANGED extVars
    \/ \E t \in Handles(threads) : ConsumerRun(t) /\ UNCHANGED extVars
    \/ \E l \in Handles(loops) : LoopFire(l) /\ UNCHANGED extVars
    \/ \E l \in Handles(loops) : LoopExit(l) /\ UNCHANGED extVars
    \/ \E l \in Handles(loops) : ReportGet(l) /\ UNCHANGED extVars
    \/ \E l \in Handles(loops) : ReportCreate(l) /\ UNCHANGED extVars
    \/ \E l \in Handles(loops) : ReportReget(l) /\ UNCHANGED extVars
    \/ \E l \in Handles(loops) : ReportUpdate(l) /\ UNCHANGED extVars
    \/ \E l \in Handles(loops) : PeriodicReturn(l) /\ UNCHANGED extVars
    \/ \E l \in Handles(loops) : PeriodicRaise(l) /\ UNCHANGED extVars

\* The faults of the world outside the process.
Faults ==
    \/ \E t \in Handles(threads) : BusDies(t) /\ UNCHANGED extVars
    \/ \E id \in DOMAIN registry : ExternalDelete(id) /\ UNCHANGED extVars
    \/ DbToggle /\ UNCHANGED extVars

Next ==
    \/ Steps
    \/ Faults

\* The lifecycle of the specification: Created, started once, stopped or
\* killed, in a world where the bus and the registry may fail and records
\* may be deleted out-of-band.
Spec == Init /\ [][Next]_vars

NextRestart ==
    \/ Steps
    \/ Restart /\ UNCHANGED extVars

\* start() called again on the instance, in a world without faults.
SpecRestart == Init /\ [][NextRestart]_vars

\* ---------------------------------------------------- the service in time
\* The interval start() gives the LoopingCall of callback f, lines 209, 214.
Interval(f) ==
    IF f = "report_state" THEN report_interval ELSE periodic_interval

\* LoopingCall.start(interval, now=True): the first call is due at once.
FirstWakeNow(interval) == now

\* LoopingCall.start(interval, now=False), lines 209 and 214: the loop
\* sleeps one interval before its first call.
FirstWake(interval) == now + interval

\* The sleeps and the history of the timers a step of start() created.
StartTimers ==
    /\ wake' = [l \in DOMAIN loops' |->
                  IF l \in DOMAIN wake THEN wake[l]
                  ELSE FirstWake(Interval(loops'[l].f))]
    /\ fired' = [l \in DOMAIN loops' |->
                   IF l \in DOMAIN fired THEN fired[l]
                   ELSE [at |-> now, n |-> 0]]

\* The loop sleeps one interval after its callback returned.
Resleep(l) ==
    wake' = IF loops'[l].pc = "sleep"
            THEN [wake EXCEPT ![l] = now + Interval(loops[l].f)]
            ELSE wake

\* start(), lines 174-215, at tick now.
TimedStartSpawn ==
    /\ StartSpawn
    /\ StartTimers
    /\ UNCHANGED now

\* The loop's sleep is over and it calls its callback.
TimedLoopFire(l) ==
    /\ now >= wake[l]
    /\ LoopFire(l)
    /\ fired' = [fired EXCEPT ![l] = [at |-> now, n |-> @.n + 1]]
    /\ UNCHANGED <<now, wake>>

\* The loop's sleep is over after stop() and it ends.
TimedLoopExit(l) ==
    /\ now >= wake[l]
    /\ LoopExit(l)
    /\ UNCHANGED timeVars

\* A tick of the clock.
Tick ==
    /\ now < MaxTime
    /\ now' = now + 1
    /\ UNCHANGED <<registry, nextId, dbUp, svcVars, service_id,
                   model_disconnected, timers, consumer_set_thread, threads,
                   loops, mainPc, inKill, waitList, nStarts, lastRet, stopped,
                   everStopped, killAbsent, histVars, wake, fired>>

\* A service whose intervals are a few ticks.
InitTimed ==
    /\ InitService
    /\ report_interval \in 0..MaxInterval
    /\ periodic_interval \in {0, MaxInterval}
    /\ InitTime
    /\ InitRun
    /\ InitLauncher
    /\ InitPeer
    /\ InitDispatch

untimedVars == <<run, launcherVars, peer, dispatchVars>>

NextTimed ==
    \/ FirstStart /\ UNCHANGED extVars
    \/ StartLookup /\ UNCHANGED extVars
    \/ StartCreate /\ UNCHANGED extVars
    \/ TimedStartSpawn /\ UNCHANGED untimedVars
    \/ StopCall /\ UNCHANGED extVars
    \/ StopJoin /\ UNCHANGED extVars
    \/ \E t \in Handles(threads) : ConsumerRun(t) /\ UNCHANGED extVars
    \/ \E l \in Handles(loops) : TimedLoopFire(l) /\ UNCHANGED untimedVars
    \/ \E l \in Handles(loops) : TimedLoopExit(l) /\ UNCHANGED untimedVars
    \/ \E l \in Handles(loops) :
          ReportGet(l) /\ Resleep(l) /\ UNCHANGED <<now, fired, untimedVars>>
    \/ \E l \in Handles(loops) :
          ReportCreate(l) /\ Resleep(l) /\ UNCHANGED <<now, fired, untimedVars>>
    \/ \E l \in Handles(loops) :
          ReportReget(l) /\ Resleep(l) /\ UNCHANGED <<now, fired, untimedVars>>
    \/ \E l \in Handles(loops) :
          ReportUpdate(l) /\ Resleep(l) /\ UNCHANGED <<now, fired, untimedVars>>
    \/ \E l \in Handles(loops) :
          PeriodicReturn(l) /\ Resleep(l)
             /\ UNCHANGED <<now, fired, untimedVars>>
    \/ \E l \in Handles(loops) : PeriodicRaise(l) /\ UNCHANGED extVars
    \/ \E id \in DOMAIN registry : ExternalDelete(id) /\ UNCHANGED extVars
    \/ Tick /\ UNCHANGED untimedVars

\* One start() of the service, its timers and its stop(), against a clock.
SpecTimed == InitTimed /\ [][NextTimed]_vars

\* ------------------------------------------------- Launcher.run_service
\* The variables of the service and its registry, which a step of
\* run_service between two calls leaves alone.
serviceVars == <<registry, nextId, dbUp, svcVars, service_id,
                 model_disconnected, timers, consumer_set_thread, threads,
                 loops, mainPc, inKill, waitList, nStarts, lastRet, stopped,
                 everStopped, killAbsent, histVars>>

\* start(), lines 159-215: an interrupt is delivered to the process while
\* the caller is inside start(); KeyboardInterrupt is raised there and,
\* being caught nowhere in start(), leaves it.
StartInterrupt ==
    /\ mainPc \in {"start_lookup", "start_create", "start_spawn"}
    /\ Return("start", "KeyboardInterrupt")
    /\ UNCHANGED <<registry, nextId, dbUp, svcVars, service_id,
                   model_disconnected, timers, consumer_set_thread, threads,
                   loops, inKill, waitList, nStarts, stopped, everStopped,
                   killAbsent, histVars>>

\* The last call of the body has returned or raised.
CallOver(op) ==
    /\ mainPc = "idle"
    /\ lastRet.op = op

\* The process is running its body.
RunAlive == run.pc \in {"start", "wait", "stop"}

\* run_service, line 104: service.start().
RunStart ==
    /\ run.pc = "init"
    /\ FirstStart
    /\ run' = [run EXCEPT !.pc = "start"]

\* run_service, line 104: the interrupt arrives inside service.start().
RunStartInterrupted ==
    /\ run.pc = "start"
    /\ StartInterrupt
    /\ run' = [run EXCEPT !.intr = TRUE]

\* run_service, line 104: service.start() raised.  The call is outside the
\* try of lines 105-108, so whatever it raised leaves run_service.
RunStartRaised ==
    /\ run.pc = "start"
    /\ CallOver("start")
    /\ lastRet.exc # "none"
    /\ run' = [run EXCEPT !.pc = "raised"]
    /\ UNCHANGED serviceVars

\* run_service, lines 105-106: service.start() returned; service.wait().
RunWait ==
    /\ run.pc = "start"
    /\ CallOver("start")
    /\ lastRet.exc = "none"
    /\ WaitCall
    /\ run' = [run EXCEPT !.pc = "wait"]

\* run_service, line 106: the interrupt arrives inside service.wait().
RunWaitInterrupted ==
    /\ run.pc = "wait"
    /\ WaitInterrupt
    /\ run' = [run EXCEPT !.intr = TRUE]

\* run_service, line 106: service.wait() returned, and so does run_service.
RunWaitReturned ==
    /\ run.pc = "wait"
    /\ CallOver("wait")
    /\ lastRet.exc = "none"
    /\ run' = [run EXCEPT !.pc = "returned"]
    /\ UNCHANGED serviceVars

\* run_service, lines 107-108: service.wait() raised KeyboardInterrupt;
\* service.stop().
RunStop ==
    /\ run.pc = "wait"
    /\ CallOver("wait")
    /\ lastRet.exc = "KeyboardInterrupt"
    /\ StopCall
    /\ run' = [run EXCEPT !.pc = "stop", !.stop_called = TRUE]

\* run_service, line 108: service.stop() returned, or raised out of the
\* except clause and so out of run_service.
RunStopOver ==
    /\ run.pc = "stop"
    /\ CallOver("stop")
    /\ run' = [run EXCEPT !.pc = IF lastRet.exc = "none"
                                  THEN "returned" ELSE "raised"]
    /\ UNCHANGED serviceVars

runOffVars == <<timeVars, launcherVars, peer, dispatchVars>>

\* The service is about to be run by run_service.
InitRunService ==
    /\ InitService
    /\ InitIntervals
    /\ InitTime
    /\ run = [pc |-> "init", intr |-> FALSE, stop_called |-> FALSE]
    /\ InitLauncher
    /\ InitPeer
    /\ InitDispatch

NextRun ==
    \/ RunStart /\ UNCHANGED runOffVars
    \/ StartLookup /\ UNCHANGED extVars
    \/ StartCreate /\ UNCHANGED extVars
    \/ StartSpawn /\ UNCHANGED extVars
    \/ RunStartInterrupted /\ UNCHANGED runOffVars
    \/ RunStartRaised /\ UNCHANGED runOffVars
    \/ RunWait /\ UNCHANGED runOffVars
    \/ WaitReturn /\ UNCHANGED extVars
    \/ RunWaitInterrupted /\ UNCHANGED runOffVars
    \/ RunWaitReturned /\ UNCHANGED runOffVars
    \/ RunStop /\ UNCHANGED runOffVars
    \/ StopJoin /\ UNCHANGED extVars
    \/ RunStopOver /\ UNCHANGED runOffVars
    \/ \E t \in Handles(threads) :
          RunAlive /\ ConsumerRun(t) /\ UNCHANGED extVars
    \/ \E t \in Handles(threads) :
          RunAlive /\ BusDies(t) /\ UNCHANGED extVars
    \/ \E l \in Handles(loops) :
          RunAlive /\ LoopFire(l) /\ UNCHANGED extVars
    \/ \E l \in Handles(loops) :
          RunAlive /\ LoopExit(l) /\ UNCHANGED extVars
    \/ \E l \in Handles(loops) :
          RunAlive /\ ReportGet(l) /\ UNCHANGED extVars
    \/ \E l \in Handles(loops) :
          RunAlive /\ ReportUpdate(l) /\ UNCHANGED extVars
    \/ \E l \in Handles(loops) :
          RunAlive /\ PeriodicReturn(l) /\ UNCHANGED extVars
    \/ \E l \in Handles(loops) :
          RunAlive /\ PeriodicRaise(l) /\ UNCHANGED extVars
    \/ RunAlive /\ DbToggle /\ UNCHANGED extVars

\* The body of the service's process, from service.start() to its end.
SpecRun == InitRunService /\ [][NextRun]_vars

\* ------------------------------------------------------------ the Launcher
\* A process of self._services is "alive" while it runs run_service,
\* "signalled" once terminate() has sent it the termination signal, which
\* run_service does not handle, "exited" when run_service ended by itself
\* and "terminated" when the signal ended it.

\* service.is_alive(), line 129.
is_alive(st) == st \in {"alive", "signalled"}

\* service.terminate() that sends nothing.
terminateNothing(st) == st

\* service.terminate(), line 130: the signal is sent to a process that is
\* running; a process that has ended in between is left as it is.
terminate(st) == IF st = "alive" THEN "signalled" ELSE st

\* The caller of the Launcher leaves a call.
LauncherReturn(op) == launcher' = [pc |-> "idle", i |-> 0, ret |-> op]

\* launch_service, lines 117-120: a process running run_service is started
\* and appended to self._services.
LaunchService ==
    /\ launcher.pc = "idle"
    /\ Len(procs) < MaxServices
    /\ procs' = Append(procs, "alive")
    /\ LauncherReturn("launch_service")

\* Launcher.stop, line 128: the loop over self._services begins.
LauncherStop ==
    /\ launcher.pc = "idle"
    /\ launcher' = [pc |-> "stop_check", i |-> 1, ret |-> launcher.ret]
    /\ UNCHANGED procs

\* Launcher.stop, lines 128-129: the next process, if there is one, is asked
\* whether it is alive; after the last one stop() returns.
LauncherStopCheck ==
    /\ launcher.pc = "stop_check"
    /\ IF launcher.i > Len(procs)
       THEN LauncherReturn("stop")
       ELSE launcher' = IF is_alive(procs[launcher.i])
                        THEN [launcher EXCEPT !.pc = "stop_terminate"]
                        ELSE [launcher EXCEPT !.i = @ + 1]
    /\ UNCHANGED procs

\* Launcher.stop, line 130: the process that answered alive is terminated.
LauncherStopTerminate ==
    /\ launcher.pc = "stop_terminate"
    /\ procs' = [procs EXCEPT ![launcher.i] = terminate(@)]
    /\ launcher' = [launcher EXCEPT !.pc = "stop_check", !.i = @ + 1]

\* Launcher.wait, line 138: the loop over self._services begins.
LauncherWait ==
    /\ launcher.pc = "idle"
    /\ launcher' = [pc |-> "wait", i |-> 1, ret |-> launcher.ret]
    /\ UNCHANGED procs

\* Launcher.wait, lines 138-139: service.join() returns when the process
\* has ended; after the last one wait() returns.
LauncherJoin ==
    /\ launcher.pc = "wait"
    /\ IF launcher.i > Len(procs)
       THEN LauncherReturn("wait")
       ELSE /\ ~is_alive(procs[launcher.i])
            /\ launcher' = [launcher EXCEPT !.i = @ + 1]
    /\ UNCHANGED procs

\* run_service, lines 104-108, returns or raises: the process ends by itself.
ProcessExits(p) ==
    /\ procs[p] = "alive"
    /\ procs' = [procs EXCEPT ![p] = "exited"]
    /\ UNCHANGED launcher

\* The termination signal ends the process.
ProcessTerminated(p) ==
    /\ procs[p] = "signalled"
    /\ procs' = [procs EXCEPT ![p] = "terminated"]
    /\ UNCHANGED launcher

launcherOffVars == <<serviceVars, timeVars, run, peer, dispatchVars>>

NextLauncher ==
    \/ LaunchService /\ UNCHANGED launcherOffVars
    \/ LauncherStop /\ UNCHANGED launcherOffVars
    \/ LauncherStopCheck /\ UNCHANGED launcherOffVars
    \/ LauncherStopTerminate /\ UNCHANGED launcherOffVars
    \/ LauncherWait /\ UNCHANGED launcherOffVars
    \/ LauncherJoin /\ UNCHANGED launcherOffVars
    \/ \E p \in Handles(procs) : ProcessExits(p) /\ UNCHANGED launcherOffVars
    \/ \E p \in Handles(procs) :
          ProcessTerminated(p) /\ UNCHANGED launcherOffVars

\* A Launcher, the processes it launches and its stop() and wait().
SpecLauncher == Init /\ [][NextLauncher]_vars

\* ------------------------------------------- another service, another process
\* A second Node Service of the same binary runs the same start() and
\* report_state() in its own process, against the same registry; it is
\* configured with this service's host or with another one.  Each of its
\* actions is the code between two of its registry calls.
PeerRecords == service_get_by_args(registry, peer.host, Binary)

\* start(), lines 166-171, of the other service.
PeerStartLookup ==
    /\ peer.pc = "init"
    /\ \/ \E id \in PeerRecords :
             peer' = [peer EXCEPT !.pc = "running", !.service_id = id]
       \/ /\ PeerRecords = {}
          /\ peer' = [peer EXCEPT !.pc = "start_create"]
    /\ UNCHANGED <<registry, nextId>>

\* _create_service_ref, lines 217-225, called by its start() at line 172
\* or by its report_state() at line 302.
PeerCreate ==
    /\ peer.pc \in {"start_create", "create"}
    /\ nextId <= MaxId
    /\ registry' = service_create(registry, nextId, peer.host, Binary)
    /\ nextId' = nextId + 1
    /\ peer' = [peer EXCEPT !.service_id = nextId,
                            !.pc = IF peer.pc = "create"
                                   THEN "reget" ELSE "running"]

\* Its heartbeat timer calls its report_state(), line 293.
PeerFire ==
    /\ peer.pc = "running"
    /\ peer' = [peer EXCEPT !.pc = "get"]
    /\ UNCHANGED <<registry, nextId>>

\* report_state(), lines 296-303: db.service_get; NotFound at the first
\* one leads to the recreation, at the second one it is a failure.
PeerGet ==
    /\ peer.pc \in {"get", "reget"}
    /\ peer' = IF service_found(registry, peer.service_id)
               THEN [peer EXCEPT
                        !.pc = "update",
                        !.ref = registry[peer.service_id].report_count]
               ELSE [peer EXCEPT !.pc = IF peer.pc = "get"
                                        THEN "create" ELSE "running"]
    /\ UNCHANGED <<registry, nextId>>

\* report_state(), lines 305-307: db.service_update of the count read
\* plus one.
PeerUpdate ==
    /\ peer.pc = "update"
    /\ IF service_found(registry, peer.service_id)
       THEN /\ peer.ref + 1 <= MaxCount
            /\ registry' = service_update(registry, peer.service_id,
                                          peer.ref + 1)
       ELSE UNCHANGED registry
    /\ peer' = [peer EXCEPT !.pc = "running", !.ref = 0]
    /\ UNCHANGED nextId

\* A record of the other service is deleted out-of-band.
PeerRecordDeleted(id) ==
    /\ id \in PeerRecords
    /\ registry' = service_destroy(registry, id)
    /\ UNCHANGED <<nextId, peer>>

\* What a step of the other service leaves alone in this one.
ownVars == <<dbUp, svcVars, service_id, model_disconnected, timers,
             consumer_set_thread, threads, loops, mainPc, inKill, waitList,
             nStarts, lastRet, stopped, everStopped, killAbsent, histVars>>

peerOffVars == <<ownVars, timeVars, run, launcherVars, dispatchVars>>

\* Two services about to start: this one with a heartbeat timer only.
InitPeers ==
    /\ InitService
    /\ report_interval = DefaultReportInterval
    /\ periodic_interval = 0
    /\ InitTime
    /\ InitRun
    /\ InitLauncher
    /\ \E h \in {Host, OtherHost} :
          peer = [host |-> h, pc |-> "init", service_id |-> None, ref |-> 0]
    /\ InitDispatch

NextPeers ==
    \/ FirstStart /\ UNCHANGED extVars
    \/ StartLookup /\ UNCHANGED extVars
    \/ StartCreate /\ UNCHANGED extVars
    \/ StartSpawn /\ UNCHANGED extVars
    \/ \E l \in Handles(loops) : LoopFire(l) /\ UNCHANGED extVars
    \/ \E l \in Handles(loops) : ReportGet(l) /\ UNCHANGED extVars
    \/ \E l \in Handles(loops) : ReportCreate(l) /\ UNCHANGED extVars
    \/ \E l \in Handles(loops) : ReportReget(l) /\ UNCHANGED extVars
    \/ \E l \in Handles(loops) : ReportUpdate(l) /\ UNCHANGED extVars
    \/ \E id \in DOMAIN registry : ExternalDelete(id) /\ UNCHANGED extVars
    \/ PeerStartLookup /\ UNCHANGED peerOffVars
    \/ PeerCreate /\ UNCHANGED peerOffVars
    \/ PeerFire /\ UNCHANGED peerOffVars
    \/ PeerGet /\ UNCHANGED peerOffVars
    \/ PeerUpdate /\ UNCHANGED peerOffVars
    \/ \E id \in DOMAIN registry :
          PeerRecordDeleted(id) /\ UNCHANGED peerOffVars

\* Two Node Services, each in its own process, start and heartbeat against
\* the shared registry, from which records may be deleted out-of-band.
SpecPeers == InitPeers /\ [][NextPeers]_vars

\* ---------------------------------------------------------------- dispatch
\* The names class Service defines, lines 159-293, among those dispatched.
ServiceMethods ==
    {"start", "stop", "kill", "wait", "periodic_tasks", "report_state"}

\* The names a manager must define, and the ones it may: a domain method,
\* and names the service has too.
RequiredManagerMethods == {"init_host", "periodic_tasks"}
OptionalManagerMethods == {"run_instance", "stop", "service_id"}

\* The names dispatched on the service.
MethodNames ==
    {"stop", "periodic_tasks", "service_id", "run_instance", "bogus"}

\* What the service defines: the methods of its class and the attributes
\* its instance has; service_id is one once start() has set it, lines 170
\* and 225.
ServiceDefines(m) ==
    \/ m \in ServiceMethods
    \/ m = "service_id" /\ service_id # None

\* Service.__getattr__, lines 227-229: getattr(manager, key).
getattr_manager(key) ==
    IF key \in manager_methods THEN "manager" ELSE "AttributeError"

\* A lookup that asks the manager first.
lookupManagerFirst(m) ==
    IF m \in manager_methods THEN "manager"
    ELSE IF ServiceDefines(m) THEN "service" ELSE "AttributeError"

\* getattr(proxy, m) with the service as proxy, lines 185, 189, 193:
\* __getattr__ is called only when the service does not define the name.
lookup(m) ==
    IF ServiceDefines(m) THEN "service" ELSE getattr_manager(m)

\* A bus message naming method m is dispatched on the service.
Dispatch(m) ==
    /\ dispatched' = [m |-> m, by |-> lookup(m)]
    /\ UNCHANGED manager_methods

dispatchOffVars == <<timeVars, run, launcherVars, peer>>

\* A service with a manager of some class.
InitDispatching ==
    /\ InitService
    /\ InitIntervals
    /\ InitTime
    /\ InitRun
    /\ InitLauncher
    /\ InitPeer
    /\ \E ms \in SUBSET OptionalManagerMethods :
          manager_methods = RequiredManagerMethods \cup ms
    /\ dispatched = [m |-> "none", by |-> "none"]

NextDispatch ==
    \/ FirstStart /\ UNCHANGED extVars
    \/ StartLookup /\ UNCHANGED extVars
    \/ StartCreate /\ UNCHANGED extVars
    \/ StartSpawn /\ UNCHANGED extVars
    \/ \E t \in Handles(threads) : ConsumerRun(t) /\ UNCHANGED extVars
    \/ \E m \in MethodNames :
          Dispatch(m) /\ UNCHANGED <<serviceVars, dispatchOffVars>>

\* Method names looked up on a service before, during and after start().
SpecDispatch == InitDispatching /\ [][NextDispatch]_vars

\* ------------------------------------------------------------ the claims
HeartbeatLoops == {l \in DOMAIN loops : loops[l].f = "report_state"}

\* Loop l takes the step that ends an invocation of report_state().
HbEnds(l) ==
    /\ loops[l].pc \in {"get", "create", "reget", "update"}
    /\ loops'[l].pc = "sleep"

\* The invocation ends after a successful service_update.
HbSucceeds(l) ==
    /\ HbEnds(l)
    /\ loops[l].pc = "update"
    /\ dbUp
    /\ service_found(registry, service_id)

\* The invocation ends because a registry call raised.
HbFails(l) == HbEnds(l) /\ ~HbSucceeds(l)

\* C1: over the invocations of report_state() of a started service, a
\* failure logs one error exactly when the invocation before it did not fail
\* (the first failure of a run) and nothing otherwise; a success logs one
\* recovery exactly when the invocation before it failed and nothing
\* otherwise; and no other step logs anything.
C1_DebouncedNotifications ==
    [][/\ \A l \in HeartbeatLoops :
            /\ HbFails(l) =>
                  /\ hbLast' = "fail"
                  /\ hbEmit' = IF hbLast = "fail" THEN "none" ELSE "error"
            /\ HbSucceeds(l) =>
                  /\ hbLast' = "ok"
                  /\ hbEmit' = IF hbLast = "fail" THEN "recovery" ELSE "none"
       /\ (\A l \in HeartbeatLoops : ~HbEnds(l)) => hbEmit' = hbEmit
      ]_vars

\* C1's case: a run of failures has been ended by a success, which logged
\* the recovery.
C1_RecoveryLogged ==
    /\ hbLast = "ok"
    /\ hbEmit = "recovery"
    /\ ~model_disconnected

\* C2: with the registry reachable, a report_state() that finds the record
\* of service_id gone goes on to recreate it; the recreation adds one record
\* of (host, binary) with report_count 0, changes no other record and makes
\* service_id its id; the count the invocation then holds is the record's,
\* and every successful heartbeat raises the count of the record of
\* service_id by exactly one and changes nothing else in the registry.
C2_RecreatedAndResumed ==
    [][\A l \in HeartbeatLoops :
        /\ (loops[l].pc = "get" /\ loops'[l].pc # "get" /\ dbUp
                /\ ~service_found(registry, service_id))
              => (loops'[l].pc = "create" /\ registry' = registry)
        /\ (loops[l].pc = "create" /\ loops'[l].pc # "create" /\ dbUp)
              => /\ loops'[l].pc = "reget"
                 /\ service_id' \notin DOMAIN registry
                 /\ DOMAIN registry' = DOMAIN registry \cup {service_id'}
                 /\ registry'[service_id'] = ServiceRecord(Host, Binary, 0)
                 /\ \A i \in DOMAIN registry : registry'[i] = registry[i]
        /\ (loops[l].pc = "reget" /\ loops'[l].pc = "update")
              => loops'[l].ref = registry[service_id].report_count
        /\ HbSucceeds(l)
              => /\ service_id' = service_id
                 /\ DOMAIN registry' = DOMAIN registry
                 /\ registry'[service_id].report_count
                       = registry[service_id].report_count + 1
                 /\ \A i \in DOMAIN registry \ {service_id} :
                       registry'[i] = registry[i]
      ]_vars

\* C2's case: the one start() creates at most the third record, so the
\* record of service_id was created by a heartbeat after an out-of-band
\* deletion, and a successful heartbeat has since raised its count from 0
\* to 1.
C2_RecreatedCounts ==
    /\ service_id > 3
    /\ service_found(registry, service_id)
    /\ registry[service_id].report_count = 1
    /\ hbLast = "ok"

\* The caller takes a step of start().
StartStep ==
    \/ nStarts' # nStarts
    \/ mainPc \in {"start_lookup", "start_create", "start_spawn"}
          /\ mainPc' # mainPc

\* C10: the lookup of start() by (host, binary), answered by the registry,
\* adopts the id of a record of (host, binary) when there is one and leaves
\* the registry as it is, and sends start() to create one when there is
\* none; the creation adds one record of (host, binary) with report_count 0,
\* changes no other record and makes service_id its id; no other step of
\* start() changes the registry.
C10_StartResolvesRecord ==
    [][/\ (mainPc = "start_lookup" /\ mainPc' # "start_lookup" /\ dbUp)
            => /\ registry' = registry
               /\ IF OwnRecords # {}
                  THEN service_id' \in OwnRecords /\ mainPc' = "start_spawn"
                  ELSE service_id' = service_id /\ mainPc' = "start_create"
       /\ (mainPc = "start_create" /\ mainPc' # "start_create" /\ dbUp)
            => /\ mainPc' = "start_spawn"
               /\ service_id' \notin DOMAIN registry
               /\ DOMAIN registry' = DOMAIN registry \cup {service_id'}
               /\ registry'[service_id'] = ServiceRecord(Host, Binary, 0)
               /\ \A i \in DOMAIN registry : registry'[i] = registry[i]
       /\ (StartStep /\ mainPc # "start_create") => registry' = registry
      ]_vars

\* C10's case: start() has returned having found the record that was there
\* before it, no heartbeat has run yet, and the record still has the count
\* it had.
C10_Adopted ==
    /\ lastRet = Ret("start", "none")
    /\ nextId = 3
    /\ service_id = 2
    /\ service_found(registry, 2)
    /\ registry[2].report_count = 1
    /\ hbLast = "none"
    /\ \A l \in DOMAIN loops : loops[l].pc = "sleep"

\* C3 as stated: once stop() has returned, no step of the service
\* increments report_count.
C3_NoIncrementAfterStop ==
    [][stopped => \A l \in HeartbeatLoops : ~HbSucceeds(l)]_vars

\* C3 as amended: once stop() has returned, and until start() is called
\* again, no invocation of report_state() begins; only an invocation that
\* was in flight when stop() returned can still increment report_count.
C3_NoNewInvocationAfterStop ==
    [][(stopped /\ stopped')
          => \A l \in HeartbeatLoops : InFlight(l)' => InFlight(l)]_vars

\* C3's case: stop() has returned while an invocation of report_state() is
\* suspended between its service_get and its service_update.
C3_InFlightAtStop ==
    /\ stopped
    /\ lastRet = Ret("stop", "none")
    /\ mainPc = "idle"
    /\ \E l \in HeartbeatLoops : loops[l].pc = "update"

\* The service was started: start() has spawned its Consumer Group task.
Started == consumer_set_thread # None

\* C4 as stated: once kill() has returned, with the registry reachable, the
\* registry holds no record of the service.
C4_KilledStaysGone ==
    (lastRet = Ret("kill", "none") /\ mainPc = "idle") => OwnRecords = {}

\* C5 as stated: stop() on a started service does not raise and leaves the
\* timer list empty, and a stop() that follows a stop() changes nothing of
\* the service, its tasks or the registry.
C5_StopIdempotent ==
    /\ []((Started /\ mainPc = "idle" /\ lastRet.op = "stop")
             => (lastRet.exc = "none" /\ timers = <<>>))
    /\ [][(lastRet = Ret("stop", "none") /\ ~inKill' /\ mainPc' # mainPc
              /\ mainPc \in {"idle", "stop_wait"}
              /\ mainPc' \in {"idle", "stop_wait"})
            => UNCHANGED <<registry, service_id, model_disconnected, timers,
                           consumer_set_thread, threads, loops>>]_vars

\* C6 as stated: kill() on a started service whose record is absent, the
\* registry being reachable, returns without raising, and its
\* service_destroy leaves the registry as it is.
C6_KillAbsentRecord ==
    /\ []((Started /\ mainPc = "idle" /\ lastRet.op = "kill" /\ killAbsent
              /\ lastRet.exc # "db_error") => lastRet.exc = "none")
    /\ [][(mainPc = "kill_destroy" /\ mainPc' = "idle"
              /\ ~service_found(registry, service_id))
            => registry' = registry]_vars

\* C7 as stated: when stop() on a started service with timers is over,
\* however the Consumer Group task ended, it has not raised, every timer
\* start() created is cancelled and the timer list is empty.
C7_StopReleasesTimers ==
    (Started /\ loops # <<>> /\ mainPc = "idle" /\ lastRet.op = "stop")
       => /\ lastRet.exc = "none"
          /\ timers = <<>>
          /\ \A l \in DOMAIN loops : ~loops[l].running

\* C8 as stated: when wait() has returned, every timer start() created has
\* ended or been stopped and no invocation of a callback is in flight.
C8_WaitJoinsTimers ==
    (mainPc = "idle" /\ lastRet = Ret("wait", "none"))
       => \A l \in DOMAIN loops :
             /\ ~InFlight(l)
             /\ loops[l].running => Finished(l)

\* No Consumer Group task is waiting or about to, and no timer will fire.
Quiet ==
    /\ \A t \in DOMAIN threads : ThreadDead(t)
    /\ \A l \in DOMAIN loops : Finished(l) \/ ~loops[l].running

\* C9 as stated: after stop() has completed and left no task waiting and no
\* timer firing, no step brings one back.
C9_NoWayBack ==
    [][(everStopped /\ Quiet) => Quiet']_vars

\* C11: a heartbeat timer calls report_state() only when the interval is
\* positive and at least one interval has passed since start() started the
\* timer or since the timer last called report_state(); a service whose
\* report_interval is 0 has no heartbeat timer.
C11_HeartbeatPacing ==
    /\ [][\A l \in HeartbeatLoops :
            (loops[l].pc = "sleep" /\ loops'[l].pc = "get")
               => /\ report_interval > 0
                  /\ now >= fired[l].at + report_interval]_vars
    /\ [](report_interval = 0 => HeartbeatLoops = {})

\* C11's case: the heartbeat timer has called report_state() a second time.
C11_SecondHeartbeat ==
    \E l \in HeartbeatLoops :
        /\ fired[l].n = 2
        /\ loops[l].pc = "get"
        /\ lastRet = Ret("start", "none")

\* C12: when manager.init_host() raises, or the lookup of start() fails with
\* the registry unreachable, the step ends start() with that error and
\* changes neither the registry nor the tasks and timers of the service; and
\* as long as start() has not passed its lookup, no record has been created
\* (a created record starts at count 0), no Consumer Group task spawned and
\* no timer started.
C12_StartFailurePropagates ==
    /\ [][(nStarts' # nStarts /\ mainPc' = "idle")
            => /\ lastRet' = Ret("start", "manager_error")
               /\ UNCHANGED <<registry, nextId, service_id, threads, loops,
                              timers, consumer_set_thread>>]_vars
    /\ [][(mainPc = "start_lookup" /\ ~dbUp /\ mainPc' # mainPc)
            => /\ mainPc' = "idle"
               /\ lastRet' = Ret("start", "db_error")
               /\ UNCHANGED <<registry, nextId, service_id, threads, loops,
                              timers, consumer_set_thread>>]_vars
    /\ [](mainPc = "start_lookup"
             => /\ \A i \in DOMAIN registry : registry[i].report_count > 0
                /\ threads = <<>>
                /\ loops = <<>>
                /\ timers = <<>>
                /\ consumer_set_thread = None)

\* C12's case: start() has ended with the error of its lookup, the registry
\* being unreachable, while the record of (host, binary) is there: it was
\* not the creation that failed.
C12_LookupFailed ==
    /\ lastRet = Ret("start", "db_error")
    /\ mainPc = "idle"
    /\ OwnRecords # {}
    /\ ~dbUp
    /\ service_id = None

\* C13 as stated: when run_service is over and an interrupt was delivered
\* to it, inside service.start() or inside service.wait(), service.stop()
\* was called and run_service returned.
C13_InterruptStops ==
    (run.intr /\ run.pc \in {"returned", "raised"})
       => (run.stop_called /\ run.pc = "returned")

\* C14: when Launcher.stop() has returned, every launched process has ended
\* or has been sent the termination signal, and a process the signal was
\* sent to can only end; stop() leaves a process that has ended as it is;
\* and when Launcher.wait() has returned, every launched process has ended.
C14_LauncherStopAndWait ==
    /\ []((launcher.pc = "idle" /\ launcher.ret = "stop")
             => \A p \in DOMAIN procs : procs[p] # "alive")
    /\ [][\A p \in DOMAIN procs :
            /\ procs[p] = "signalled"
                  => procs'[p] \in {"signalled", "terminated"}
            /\ procs[p] \in {"exited", "terminated"}
                  => procs'[p] = procs[p]]_vars
    /\ []((launcher.pc = "idle" /\ launcher.ret = "wait")
             => \A p \in DOMAIN procs : ~is_alive(procs[p]))

\* C14's case: stop() has returned on a Launcher of two services or more,
\* one of which had ended by itself and another of which it terminated.
C14_StoppedBoth ==
    /\ launcher.pc = "idle"
    /\ launcher.ret = "stop"
    /\ Len(procs) >= 2
    /\ \E p \in DOMAIN procs : procs[p] = "exited"
    /\ \E p \in DOMAIN procs : procs[p] \in {"signalled", "terminated"}

\* C15 as stated: no Consumer Group is closed more than once, and when the
\* stop() of a started service is over, returned or raised, the Consumer
\* Group of its task has been closed exactly once.
C15_ClosedExactlyOnce ==
    /\ \A t \in DOMAIN threads : threads[t].closed <= 1
    /\ (Started /\ mainPc = "idle" /\ lastRet.op = "stop")
          => threads[consumer_set_thread].closed = 1

\* C16 as stated: every invocation of report_state() or periodic_tasks(),
\* failing or not, ends with its timer asleep for its next firing, running
\* as before, and leaves the Consumer Group task as it is.
C16_FailuresContained ==
    [][\A l \in DOMAIN loops :
          (InFlight(l) /\ ~InFlight(l)')
             => /\ loops'[l].pc = "sleep"
                /\ loops'[l].running = loops[l].running
                /\ threads' = threads]_vars

\* C17 as stated: the registry never holds two records of the same
\* (host, binary).
C17_OneRecordPerHostBinary ==
    \A h \in {Host, OtherHost} :
        Cardinality(service_get_by_args(registry, h, Binary)) <= 1

\* The other service's report_state() ends after a successful
\* service_update.
PeerSucceeds ==
    /\ peer.pc = "update"
    /\ peer'.pc = "running"
    /\ service_found(registry, peer.service_id)

\* C18: for two services of distinct hosts, a successful report_state() of
\* either raises by exactly one the count of the record it owns, a record
\* of its own host, and changes no other record; no other step changes the
\* count of a record; and a record is created with count 0.  So the count
\* of a record is the number of successful heartbeats of its owner since
\* its creation.
C18_IndependentCounts ==
    [][peer.host # Host =>
        /\ \A l \in HeartbeatLoops : HbSucceeds(l) =>
              /\ registry[service_id].host = Host
              /\ DOMAIN registry' = DOMAIN registry
              /\ registry'[service_id].report_count
                    = registry[service_id].report_count + 1
              /\ \A i \in DOMAIN registry \ {service_id} :
                    registry'[i] = registry[i]
        /\ PeerSucceeds =>
              /\ registry[peer.service_id].host = peer.host
              /\ DOMAIN registry' = DOMAIN registry
              /\ registry'[peer.service_id].report_count
                    = registry[peer.service_id].report_count + 1
              /\ \A i \in DOMAIN registry \ {peer.service_id} :
                    registry'[i] = registry[i]
        /\ ((\A l \in HeartbeatLoops : ~HbSucceeds(l)) /\ ~PeerSucceeds)
              => \A i \in DOMAIN registry \cap DOMAIN registry' :
                    registry'[i] = registry[i]
        /\ \A i \in DOMAIN registry' \ DOMAIN registry :
              registry'[i].report_count = 0
      ]_vars

\* C18's case: this service has read its count, written it plus one and
\* succeeded while the other service, of another host, was between the read
\* and the write of its own heartbeat, and the count the other one read is
\* still the count of its record.
C18_InterleavedHeartbeats ==
    /\ peer.host = OtherHost
    /\ peer.pc = "update"
    /\ service_found(registry, peer.service_id)
    /\ registry[peer.service_id].report_count = peer.ref
    /\ hbLast = "ok"
    /\ service_found(registry, service_id)
    /\ registry[service_id].report_count = MaxCount

\* C19: every dispatch of a name resolves to the service when the service
\* defines the name, otherwise to the manager when the manager defines it,
\* and fails as method-not-found otherwise; so a name the manager defines
\* and the service does not always resolves to the manager.
C19_DispatchForwarding ==
    [][dispatched' # dispatched =>
         LET m == dispatched'.m
         IN /\ ServiceDefines(m) => dispatched'.by = "service"
            /\ (~ServiceDefines(m) /\ m \in manager_methods)
                  => dispatched'.by = "manager"
            /\ (~ServiceDefines(m) /\ m \notin manager_methods)
                  => dispatched'.by = "AttributeError"]_vars

\* C19's case: on a started service whose Consumer Group task is waiting, a
\* name only the manager defines was dispatched and resolved to the
\* manager's, the manager defining names of the service's own as well.
C19_Forwarded ==
    /\ dispatched = [m |-> "run_instance", by |-> "manager"]
    /\ "stop" \in manager_methods
    /\ lastRet = Ret("start", "none")
    /\ \E t \in DOMAIN threads : threads[t].st = "waiting"

\* The timers of callback f that will fire again, and the Consumer Group
\* tasks that have not ended.
ActiveLoops(f) ==
    {l \in DOMAIN loops :
        loops[l].f = f /\ loops[l].running /\ ~Finished(l)}

LiveThreads == {t \in DOMAIN threads : ~ThreadDead(t)}

\* C20 as stated: between two calls on the instance there is at most one
\* active heartbeat timer, at most one active periodic-tasks timer and at
\* most one live Consumer Group task, every active timer is in self.timers
\* and a live Consumer Group task is self.consumer_set_thread.
C20_OneOfEachReachable ==
    mainPc = "idle" =>
        /\ Cardinality(ActiveLoops("report_state")) <= 1
        /\ Cardinality(ActiveLoops("periodic_tasks")) <= 1
        /\ Cardinality(LiveThreads) <= 1
        /\ \A t \in LiveThreads : t = consumer_set_thread
        /\ \A l \in ActiveLoops("report_state")
                      \cup ActiveLoops("periodic_tasks") :
              \E i \in DOMAIN timers : timers[i] = l

====
